---- MODULE Spec2Model ----
(***************************************************************************)
(* The PDF auto-tagging pipeline of src/autotag.py for one page:           *)
(* detect_tables -> analyze_layout -> insert_marked_content_by_bbox        *)
(* (text-run discovery, greedy matching, stream rewrite) -> the per-page   *)
(* structure-tree loop of apply_tagging.                                   *)
(*                                                                         *)
(* Strings are sequences of one-character strings, so that lower(),        *)
(* split(), strip(), `in`, startswith() and the three regular expressions  *)
(* of the source are computed on characters as Python computes them.       *)
(* Positions are 1-based: a regex match is [start |-> s, end |-> e] with   *)
(* s the first character and e the last character of the match (Python's   *)
(* match.start() = s - 1 and match.end() = e).                             *)
(***************************************************************************)
EXTENDS Integers, Sequences, FiniteSets, TLC

VARIABLES pc, found, blocks, content, tables, items, matches,
          text_block_matches, used_indices, new_content_parts,
          mcid_counter, item_pos, sect_K

vars == <<pc, found, blocks, content, tables, items, matches,
          text_block_matches, used_indices, new_content_parts,
          mcid_counter, item_pos, sect_K>>

\* ------------------------------------------------------------ bounds
MaxTables == 1
MaxBlocks == 2
MaxRuns == 2

\* ------------------------------------------------- program constants
\* Python's None, as returned by find_best_match for "no match".
None == -1
\* Tolerance margin of the block-inside-table test.
TableMargin == 5
\* Length of the item-text prefix used by the startswith rule.
PrefixLen == 20
\* Truncation of a structure element's title.
TitleLen == 100
\* Font-size thresholds of the tag type.
H1Size == 14
H2Size == 12
\* Bold bit of a span's flags.
BoldFlag == 2

\* ------------------------------------------------------ Python strings
\* Characters that Python's str.strip()/split() and the regex class \s
\* treat as whitespace (those occurring in the modelled inputs).
Whitespace == {" ", "\n", "\t"}

UpperLetters == <<"A","B","C","D","E","F","G","H","I","J","K","L","M",
                  "N","O","P","Q","R","S","T","U","V","W","X","Y","Z">>
LowerLetters == <<"a","b","c","d","e","f","g","h","i","j","k","l","m",
                  "n","o","p","q","r","s","t","u","v","w","x","y","z">>

\* str.lower() on one character.
LowerChar(c) ==
  IF \E k \in 1..26 : UpperLetters[k] = c
  THEN LowerLetters[CHOOSE k \in 1..26 : UpperLetters[k] = c]
  ELSE c

\* str.lower()
Lower(s) == [i \in 1..Len(s) |-> LowerChar(s[i])]

\* s[a:b] with 1-based inclusive bounds, empty when b < a.
Slice(s, a, b) == IF b < a THEN <<>> ELSE SubSeq(s, a, b)

\* str.strip(): drop leading and trailing whitespace.
Strip(s) ==
  LET keep == {i \in 1..Len(s) : s[i] \notin Whitespace}
  IN IF keep = {} THEN <<>>
     ELSE LET lo == CHOOSE i \in keep : \A j \in keep : i <= j
              hi == CHOOSE i \in keep : \A j \in keep : j <= i
          IN SubSeq(s, lo, hi)

RECURSIVE SplitFrom(_, _)
\* str.split() with no argument, from position i: the maximal runs of
\* non-whitespace characters, in order.
SplitFrom(s, i) ==
  IF i > Len(s) THEN <<>>
  ELSE IF s[i] \in Whitespace THEN SplitFrom(s, i + 1)
  ELSE LET stops == {j \in i..Len(s) : s[j] \in Whitespace}
           e == IF stops = {} THEN Len(s)
                ELSE (CHOOSE j \in stops : \A k \in stops : j <= k) - 1
       IN <<SubSeq(s, i, e)>> \o SplitFrom(s, e + 1)

\* str.split()
Split(s) == SplitFrom(s, 1)

\* set(seq)
ToSet(seq) == {seq[i] : i \in 1..Len(seq)}

\* `a in b` for strings.
Contains(b, a) ==
  \E i \in 1..(Len(b) - Len(a) + 1) : Slice(b, i, i + Len(a) - 1) = a

\* b.startswith(a)
StartsWith(b, a) == Len(a) <= Len(b) /\ Slice(b, 1, Len(a)) = a

\* max(a, b), min(a, b)
Max(a, b) == IF a >= b THEN a ELSE b
Min(a, b) == IF a <= b THEN a ELSE b

RECURSIVE JoinWith(_, _)
\* sep.join(parts)
JoinWith(sep, parts) ==
  IF parts = <<>> THEN <<>>
  ELSE IF Len(parts) = 1 THEN parts[1]
  ELSE parts[1] \o sep \o JoinWith(sep, Tail(parts))

Digits == <<"0","1","2","3","4","5","6","7","8","9">>

RECURSIVE IntToStr(_)
\* str(n) for n >= 0, as the f-string of the BDC operator formats it.
IntToStr(n) ==
  IF n < 10 THEN <<Digits[n + 1]>>
  ELSE IntToStr(n \div 10) \o <<Digits[(n % 10) + 1]>>

\* ------------------------------------------------- regular expressions
\* Least element of a non-empty set of integers.
MinOf(S) == CHOOSE i \in S : \A j \in S : i <= j

\* Index of the first non-whitespace character after position k (what the
\* greedy \s* leaves next), 0 when there is none.
AfterWs(t, k) ==
  LET rest == {m \in (k + 1)..Len(t) : t[m] \notin Whitespace}
  IN IF rest = {} THEN 0 ELSE MinOf(rest)

\* Whether the literal op follows position k after optional whitespace
\* (`\s*Tj`, `\s*TJ`); an empty op asks nothing.
OpFollows(t, k, op) ==
  op = <<>> \/
  LET m == AfterWs(t, k)
  IN m # 0 /\ m + Len(op) - 1 <= Len(t) /\ SubSeq(t, m, m + Len(op) - 1) = op

\* The positions at which the lazy group (.*?) opened at position i can
\* close: a closing delimiter with no newline in between (`.` without
\* DOTALL) and the operator after it.
Closers(t, i, close, op) ==
  {k \in (i + 1)..Len(t) :
     /\ t[k] = close
     /\ \A x \in (i + 1)..(k - 1) : t[x] # "\n"
     /\ OpFollows(t, k, op)}

RECURSIVE LazyGroups(_, _, _, _, _)
\* [m.group(1) for m in re.finditer(open (.*?) close \s* op, t)] searched
\* from position `from`: leftmost opening delimiter that can match, the
\* shortest group for it, then on from the end of the match.
LazyGroups(t, from, open, close, op) ==
  LET starts == {i \in from..Len(t) :
                   t[i] = open /\ Closers(t, i, close, op) # {}}
  IN IF starts = {} THEN <<>>
     ELSE LET i == MinOf(starts)
              k == MinOf(Closers(t, i, close, op))
              e == IF op = <<>> THEN k ELSE AfterWs(t, k) + Len(op) - 1
          IN <<Slice(t, i + 1, k - 1)>> \o LazyGroups(t, e + 1, open, close, op)

RECURSIVE ArrayStrings(_)
\* The string operands of every TJ array, in order.
ArrayStrings(arrays) ==
  IF arrays = <<>> THEN <<>>
  ELSE LazyGroups(arrays[1], 1, "(", ")", <<>>) \o ArrayStrings(Tail(arrays))

\* extract_text_from_bt_et: the Tj strings, then the strings of the TJ
\* arrays, joined by one space and stripped.
extract_text_from_bt_et(bt_et_block) ==
  LET tj == LazyGroups(bt_et_block, 1, "(", ")", <<"T", "j">>)
      tjArrays == LazyGroups(bt_et_block, 1, "[", "]", <<"T", "J">>)
      text_parts == tj \o ArrayStrings(tjArrays)
  IN Strip(JoinWith(<<" ">>, text_parts))

\* The positions j at which an "ET" ends a run that began with "BT" at i:
\* after at least one whitespace character (`BT\s+.*?ET`, DOTALL).
RunEnds(s, i) ==
  {j \in (i + 3)..(Len(s) - 1) : s[j] = "E" /\ s[j + 1] = "T"}

RECURSIVE FindBtEt(_, _)
\* list(re.finditer(r'(BT\s+.*?ET)', content_str, re.DOTALL)) from position
\* `from`: non-overlapping, leftmost first, each as short as possible.
FindBtEt(s, from) ==
  LET starts == {i \in from..(Len(s) - 4) :
                   /\ s[i] = "B" /\ s[i + 1] = "T"
                   /\ s[i + 2] \in Whitespace
                   /\ RunEnds(s, i) # {}}
  IN IF starts = {} THEN <<>>
     ELSE LET i == MinOf(starts)
              e == MinOf(RunEnds(s, i)) + 1
          IN <<[start |-> i, end |-> e]>> \o FindBtEt(s, e + 1)

\* match.group(0)
Group0(s, m) == SubSeq(s, m.start, m.end)

\* -------------------------------------------------------- detect_tables
\* A cell of table.extract() is None or a string; lines 30 and 43 read only
\* its truth value, which is false for None and for "", so both are the
\* empty string here.
Truthy(cell_text) == cell_text # <<>>

RECURSIVE RowCells(_, _)
\* The cell dicts of one extracted row: a dict for every truthy cell, its
\* text stripped.
RowCells(row, is_header) ==
  IF row = <<>> THEN <<>>
  ELSE (IF Truthy(row[1])
        THEN <<[text |-> Strip(row[1]), bbox |-> None, is_header |-> is_header]>>
        ELSE <<>>) \o RowCells(Tail(row), is_header)

RECURSIVE BodyRows(_)
\* The non-empty body rows of extracted[1:].
BodyRows(rows) ==
  IF rows = <<>> THEN <<>>
  ELSE LET table_row == RowCells(rows[1], FALSE)
       IN (IF table_row # <<>> THEN <<table_row>> ELSE <<>>) \o BodyRows(Tail(rows))

\* The cells of one table: the header row when it has a truthy cell, then
\* the body rows.
TableCells(extracted) ==
  LET header_row == RowCells(extracted[1], TRUE)
  IN (IF header_row # <<>> THEN <<header_row>> ELSE <<>>) \o BodyRows(Tail(extracted))

\* The test that keeps a table: `if cells and len(cells) > 1`.
KeepTable(cells) == cells # <<>> /\ Len(cells) > 1

RECURSIVE detect_tables(_)
\* detect_tables over the tables page.find_tables() returned.
detect_tables(found_tables) ==
  IF found_tables = <<>> THEN <<>>
  ELSE LET table == found_tables[1]
           rest == detect_tables(Tail(found_tables))
       IN IF table.extracted = <<>> THEN rest
          ELSE LET cells == TableCells(table.extracted)
               IN IF KeepTable(cells)
                  THEN <<[bbox |-> table.bbox, cells |-> cells]>> \o rest
                  ELSE rest

\* ------------------------------------------------------- analyze_layout
\* Mutant of InsideTable: the test without the tolerance margin.
InsideTable_NoMargin(block_bbox, table_bbox) ==
  /\ block_bbox[1] >= table_bbox[1]
  /\ block_bbox[2] >= table_bbox[2]
  /\ block_bbox[3] <= table_bbox[3]
  /\ block_bbox[4] <= table_bbox[4]

\* The block-inside-table test of lines 110-113.
InsideTable(block_bbox, table_bbox) ==
  /\ block_bbox[1] >= table_bbox[1] - TableMargin
  /\ block_bbox[2] >= table_bbox[2] - TableMargin
  /\ block_bbox[3] <= table_bbox[3] + TableMargin
  /\ block_bbox[4] <= table_bbox[4] + TableMargin

\* is_in_table after the loop over table_bboxes.
IsInTable(block_bbox, table_bboxes) ==
  \E k \in 1..Len(table_bboxes) : InsideTable(block_bbox, table_bboxes[k])

RECURSIVE Flatten(_)
\* The spans of a block's lines in reading order.
Flatten(lines) ==
  IF lines = <<>> THEN <<>> ELSE lines[1] \o Flatten(Tail(lines))

RECURSIVE SpanText(_)
\* block_text after the loops of lines 125-127: every span's text followed
\* by one space.
SpanText(spans) ==
  IF spans = <<>> THEN <<>>
  ELSE spans[1].text \o <<" ">> \o SpanText(Tail(spans))

RECURSIVE MaxFontSize(_)
\* max_font_size, starting from 0.
MaxFontSize(spans) ==
  IF spans = <<>> THEN 0 ELSE Max(spans[1].size, MaxFontSize(Tail(spans)))

\* span["flags"] & 2
IsBold(spans) ==
  \E k \in 1..Len(spans) : (spans[k].flags \div BoldFlag) % 2 = 1

\* The tag type of a text block.
TagType(max_font_size, is_bold) ==
  IF max_font_size > H1Size THEN "H1"
  ELSE IF max_font_size > H2Size \/ is_bold THEN "H2"
  ELSE "P"

\* rect: the bounding box with the vertical axis flipped against the page
\* height.
DisplayRect(bbox, height) ==
  <<bbox[1], height - bbox[4], bbox[3] - bbox[1], bbox[4] - bbox[2]>>

\* The page item of a detected table.
TableItem(table, height) ==
  [page |-> 1, type |-> "Table", table_data |-> table.cells,
   bbox |-> table.bbox, rect |-> DisplayRect(table.bbox, height),
   y_pos |-> table.bbox[2]]

RECURSIVE TableItems(_, _)
TableItems(tbls, height) ==
  IF tbls = <<>> THEN <<>>
  ELSE <<TableItem(tbls[1], height)>> \o TableItems(Tail(tbls), height)

RECURSIVE BlockItems(_, _, _)
\* The page items of the text blocks: blocks without lines, blocks inside a
\* table and blocks whose text is empty are skipped.
BlockItems(bs, table_bboxes, height) ==
  IF bs = <<>> THEN <<>>
  ELSE LET b == bs[1]
           rest == BlockItems(Tail(bs), table_bboxes, height)
           spans == Flatten(b.lines)
           block_text == Strip(SpanText(spans))
       IN IF ~b.has_lines THEN rest
          ELSE IF IsInTable(b.bbox, table_bboxes) THEN rest
          ELSE IF block_text = <<>> THEN rest
          ELSE <<[page |-> 1,
                  type |-> TagType(MaxFontSize(spans), IsBold(spans)),
                  text |-> block_text,
                  rect |-> DisplayRect(b.bbox, height),
                  bbox |-> b.bbox,
                  y_pos |-> b.bbox[2]]>> \o rest

RECURSIVE InsertByY(_, _)
\* Insert item x into a list sorted by y_pos, after the items whose y_pos
\* is not greater (list.sort is stable).
InsertByY(sorted, x) ==
  IF sorted = <<>> THEN <<x>>
  ELSE IF sorted[1].y_pos <= x.y_pos
       THEN <<sorted[1]>> \o InsertByY(Tail(sorted), x)
       ELSE <<x>> \o sorted

RECURSIVE SortByY(_, _)
\* page_items.sort(key=lambda item: item["y_pos"])
SortByY(sorted, todo) ==
  IF todo = <<>> THEN sorted
  ELSE SortByY(InsertByY(sorted, todo[1]), Tail(todo))

\* del item["y_pos"]
DelYPos(item) == [f \in (DOMAIN item) \ {"y_pos"} |-> item[f]]

\* analyze_layout for one page, given the tables detect_tables returned.
analyze_layout(tbls, bs, height) ==
  LET table_bboxes == [k \in 1..Len(tbls) |-> tbls[k].bbox]
      page_items == TableItems(tbls, height) \o BlockItems(bs, table_bboxes, height)
      sorted == SortByY(<<>>, page_items)
  IN [k \in 1..Len(sorted) |-> DelYPos(sorted[k])]

\* ------------------------------------------------------ find_best_match
\* A similarity is the fraction <<numerator, denominator>>; Python's float
\* quotient of two small integers orders as the fraction does.
Gt(a, b) == a[1] * b[2] > b[1] * a[2]

\* item.get("text", "")
ItemText(item) == IF "text" \in DOMAIN item THEN item.text ELSE <<>>

\* The item at Python index idx.
ItemAt(items_for_page, idx) == items_for_page[idx + 1]

\* Mutant of Eligible: the candidates when used indexes are not skipped.
Eligible_IgnoresUsed(idx, items_for_page, used) ==
  /\ ItemAt(items_for_page, idx).type # "Table"
  /\ Strip(ItemText(ItemAt(items_for_page, idx))) # <<>>

\* The candidates the loop does not skip: not used, not a table, text not
\* empty after strip().
Eligible(idx, items_for_page, used) ==
  /\ idx \notin used
  /\ ItemAt(items_for_page, idx).type # "Table"
  /\ Strip(ItemText(ItemAt(items_for_page, idx))) # <<>>

\* Mutant of ExactMatch: the loop without its exact-match return.
ExactMatch_Never(text_lower, item_lower) == FALSE

\* The exact-match test of line 213.
ExactMatch(text_lower, item_lower) == text_lower = item_lower

\* The containment test of line 217.
OneContainsOther(text_lower, item_lower) ==
  Contains(text_lower, item_lower) \/ Contains(item_lower, text_lower)

\* The similarity of line 219: common distinct words over the larger number
\* of words.
Similarity(text_lower, item_lower) ==
  <<Cardinality(ToSet(Split(text_lower)) \cap ToSet(Split(item_lower))),
    Max(Len(Split(text_lower)), Len(Split(item_lower)))>>

\* The starts-with test of line 225.
StartsWithItem(text_lower, item_lower) ==
  StartsWith(text_lower, Slice(item_lower, 1, Min(PrefixLen, Len(item_lower))))

\* The similarity given to a starts-with match: 0.8.
PrefixSimilarity == <<4, 5>>

\* Mutant of Reasonable: any positive similarity is accepted.
Reasonable_AnyPositive(best_similarity) == Gt(best_similarity, <<0, 1>>)

\* The acceptance test of line 232: best_similarity > 0.3.
Reasonable(best_similarity) == Gt(best_similarity, <<3, 10>>)

RECURSIVE BestFrom(_, _, _, _, _, _)
\* The loop of lines 197-229 from index idx on, then lines 232-235.
BestFrom(text_block_text, items_for_page, used, idx, best_match_idx, best_similarity) ==
  IF idx >= Len(items_for_page)
  THEN IF Reasonable(best_similarity) THEN best_match_idx ELSE None
  ELSE IF ~Eligible(idx, items_for_page, used)
  THEN BestFrom(text_block_text, items_for_page, used, idx + 1,
                best_match_idx, best_similarity)
  ELSE LET text_lower == Lower(text_block_text)
           item_lower == Lower(Strip(ItemText(ItemAt(items_for_page, idx))))
           similarity == Similarity(text_lower, item_lower)
           byWords == OneContainsOther(text_lower, item_lower)
                      /\ Gt(similarity, best_similarity)
           sim1 == IF byWords THEN similarity ELSE best_similarity
           idx1 == IF byWords THEN idx ELSE best_match_idx
           byPrefix == StartsWithItem(text_lower, item_lower)
                       /\ Gt(PrefixSimilarity, sim1)
           sim2 == IF byPrefix THEN PrefixSimilarity ELSE sim1
           idx2 == IF byPrefix THEN idx ELSE idx1
       IN IF ExactMatch(text_lower, item_lower) THEN idx
          ELSE BestFrom(text_block_text, items_for_page, used, idx + 1, idx2, sim2)

\* find_best_match
find_best_match(text_block_text, items_for_page, used) ==
  IF text_block_text = <<>> THEN None
  ELSE BestFrom(text_block_text, items_for_page, used, 0, None, <<0, 1>>)

\* ------------------------------------------- insert_marked_content_by_bbox
\* Mutant of AddUsed: the matched index is not recorded.
AddUsed_Forgets(used, matched_idx) == used

\* used_indices.add(matched_idx)
AddUsed(used, matched_idx) == used \cup {matched_idx}

\* One pass of the loop of lines 258-267: the entry appended to
\* text_block_matches for a match (the match with the text extracted from
\* it, and the matched index or None).
MatchEntry(content_str, match, items_for_page, used) ==
  LET bt_et_text == extract_text_from_bt_et(Group0(content_str, match))
  IN [start |-> match.start, end |-> match.end, bt_et_text |-> bt_et_text,
      item_idx |-> find_best_match(bt_et_text, items_for_page, used)]

\* The characters of a tag type.
TagChars(tag_type) ==
  CASE tag_type = "H1" -> <<"H", "1">>
    [] tag_type = "H2" -> <<"H", "2">>
    [] tag_type = "P" -> <<"P">>
    [] tag_type = "Table" -> <<"T", "a", "b", "l", "e">>

\* Mutant of BdcMcid: a one-based MCID.
BdcMcid_OneBased(item_idx) == item_idx + 1

\* mcid = item_idx
BdcMcid(item_idx) == item_idx

\* f"/{tag_type} <</MCID {mcid}>> BDC\n"
BdcText(tag_type, mcid) ==
  <<"/">> \o TagChars(tag_type)
  \o <<" ", "<", "<", "/", "M", "C", "I", "D", " ">> \o IntToStr(mcid)
  \o <<">", ">", " ", "B", "D", "C", "\n">>

\* "\nEMC"
EmcText == <<"\n", "E", "M", "C">>

\* content_str[last_end:match.start()]
Before(content_str, last_end, match) ==
  Slice(content_str, last_end + 1, match.start - 1)

\* Mutant of LastEnd: last_end = match.start()
LastEnd_Start(match) == match.start - 1

\* last_end = match.end()
LastEnd(match) == match.end

RECURSIVE BuildParts(_, _, _, _, _)
\* new_content_parts after the loop of lines 275-294 from entry k on and
\* line 297. A part is the string appended, with the statement that
\* appended it: "copy" (lines 277, 297), "bdc" (285), "run" (287, 292),
\* "emc" (289).
BuildParts(content_str, items_for_page, tbm, k, last_end) ==
  IF k > Len(tbm)
  THEN <<[kind |-> "copy", chars |-> Slice(content_str, last_end + 1, Len(content_str))]>>
  ELSE LET m == tbm[k]
           run == [kind |-> "run", chars |-> Group0(content_str, m)]
           pre == [kind |-> "copy", chars |-> Before(content_str, last_end, m)]
       IN (IF m.item_idx # None
           THEN <<pre,
                  [kind |-> "bdc",
                   chars |-> BdcText(ItemAt(items_for_page, m.item_idx).type,
                                     BdcMcid(m.item_idx))],
                  run,
                  [kind |-> "emc", chars |-> EmcText]>>
           ELSE <<pre, run>>)
          \o BuildParts(content_str, items_for_page, tbm, k + 1, LastEnd(m))

RECURSIVE Concat(_)
\* "".join(parts)
Concat(parts) ==
  IF parts = <<>> THEN <<>> ELSE parts[1].chars \o Concat(Tail(parts))

\* ----------------------------------------- apply_tagging, structure tree
\* text[:100]
Title(text) == Slice(text, 1, Min(TitleLen, Len(text)))

\* Mutant of CellElems: every cell becomes a TD, is_header is not read.
CellElems_AllTD(row, counter) ==
  [k \in 1..Len(row) |->
     [S |-> "TD", P |-> "TR",
      K |-> counter + k - 1, Pg |-> 1, T |-> Slice(row[k].text, 1, Min(TitleLen, Len(row[k].text)))]]

\* The TH/TD elements of one row; the k-th cell takes mcid_counter + k - 1.
CellElems(row, counter) ==
  [k \in 1..Len(row) |->
     [S |-> IF row[k].is_header THEN "TH" ELSE "TD", P |-> "TR",
      K |-> counter + k - 1, Pg |-> 1, T |-> Title(row[k].text)]]

RECURSIVE RowElems(_, _)
\* The TR elements of a table's rows, the counter running on through them.
RowElems(table_data, counter) ==
  IF table_data = <<>> THEN <<>>
  ELSE <<[S |-> "TR", P |-> "Table", K |-> CellElems(table_data[1], counter)]>>
       \o RowElems(Tail(table_data), counter + Len(table_data[1]))

RECURSIVE CellCount(_)
\* The number of cells of a table.
CellCount(table_data) ==
  IF table_data = <<>> THEN 0
  ELSE Len(table_data[1]) + CellCount(Tail(table_data))

\* item.get("table_data", [])
TableData(item) == IF "table_data" \in DOMAIN item THEN item.table_data ELSE <<>>

\* The element one pass of the loop of lines 375-438 appends to sect.K.
ItemElem(item, counter) ==
  IF item.type = "Table"
  THEN [S |-> "Table", P |-> "Sect", K |-> RowElems(TableData(item), counter)]
  ELSE [S |-> item.type, T |-> Title(ItemText(item)), P |-> "Sect",
        K |-> counter, Pg |-> 1]

\* Mutant of CounterAfter: a table advances the counter by one, as a text
\* item does.
CounterAfter_TableAsOne(item, counter) == counter + 1

\* mcid_counter after that pass.
CounterAfter(item, counter) ==
  IF item.type = "Table" THEN counter + CellCount(TableData(item))
  ELSE counter + 1

\* --------------------------------------------------------------- inputs
\* page.rect.height
PageHeight == 120

Long20 == <<"a","b","c","d","e","f","g","h","i","j",
            "k","l","m","n","o","p","q","r","s","t">>

\* One span of a text block.
Span(text, size, flags) == [text |-> text, size |-> size, flags |-> flags]

\* The tables page.find_tables() may return: bounding box and the matrix
\* table.extract() gives. 1: header and body (one body cell blank but
\* truthy); 2: a header row of empty cells above two body rows; 3: a header
\* and an empty body row.
FoundPool ==
  << [bbox |-> <<10, 30, 100, 60>>,
      extracted |-> << << <<"n">>, <<"g">> >>, << <<"x">>, <<" ">> >> >>],
     [bbox |-> <<0, 0, 100, 8>>,
      extracted |-> << << <<>>, <<>> >>, << <<"x">> >>, << <<"y">>, <<>> >> >>],
     [bbox |-> <<0, 85, 100, 100>>,
      extracted |-> << << <<"n">> >>, << <<>> >> >>] >>

\* The blocks page.get_text("dict") may return, in discovery order.
\* 1: "a a" in two lines, bold, below table 1; 2: "A", large, above it;
\* 3: "a b c d", straddling the lower edge of table 1; 4: a long text
\* reaching 3 units out of table 1; 5: a blank text; 6: an image block.
BlockPool ==
  << [has_lines |-> TRUE, bbox |-> <<0, 70, 50, 80>>,
      lines |-> << <<Span(<<"a">>, 11, 2)>>, <<Span(<<"a">>, 11, 0)>> >>],
     [has_lines |-> TRUE, bbox |-> <<0, 10, 50, 20>>,
      lines |-> << <<Span(<<"A">>, 16, 0)>> >>],
     [has_lines |-> TRUE, bbox |-> <<20, 50, 60, 75>>,
      lines |-> << <<Span(<<"a", " ", "b">>, 11, 16), Span(<<"c", " ", "d">>, 11, 16)>> >>],
     [has_lines |-> TRUE, bbox |-> <<7, 27, 50, 45>>,
      lines |-> << <<Span(Long20 \o <<"u", "v">>, 13, 0)>> >>],
     [has_lines |-> TRUE, bbox |-> <<0, 90, 50, 95>>,
      lines |-> << <<Span(<<" ">>, 11, 0)>> >>],
     [has_lines |-> FALSE, bbox |-> <<0, 100, 50, 110>>, lines |-> <<>>] >>

\* "BT body ET\n"
TextObject(body) == <<"B", "T", " ">> \o body \o <<" ", "E", "T", "\n">>

\* "(text) Tj"
ShowTj(text) == <<"(">> \o text \o <<")", " ", "T", "j">>

\* Pieces of a page's content stream. 1: "a" shown between q and Q;
\* 2: "a a" shown by a TJ array with a kerning number; 3: "b"; 4: a string
\* holding the letters ET, which end the run early; 5: a long text sharing
\* its first 20 characters with block 4.
FragmentPool ==
  << <<"q", "\n">> \o TextObject(ShowTj(<<"a">>)) \o <<"Q", "\n">>,
     TextObject(<<"[", "(", "a", ")", " ", "-", "2", " ", "(", "a", ")", "]",
                  " ", "T", "J">>),
     TextObject(ShowTj(<<"b">>)),
     TextObject(ShowTj(<<"S", "E", "T">>)),
     TextObject(ShowTj(Long20 \o <<"X", "Y">>)) >>

RECURSIVE Pick(_, _, _)
\* The members of a pool whose positions are in `chosen`, in pool order,
\* from position k on.
Pick(pool, chosen, k) ==
  IF k > Len(pool) THEN <<>>
  ELSE (IF k \in chosen THEN <<pool[k]>> ELSE <<>>) \o Pick(pool, chosen, k + 1)

\* The sets of at most n positions of a pool.
Choices(pool, n) == {c \in SUBSET (1..Len(pool)) : Cardinality(c) <= n}

RECURSIVE Stream(_, _)
\* The content stream made of the pieces numbered by `order`.
Stream(pool, order) ==
  IF order = <<>> THEN <<>>
  ELSE pool[order[1]] \o Stream(pool, Tail(order))

\* The sequences of at most n positions of a pool.
Orders(pool, n) == UNION {[1..k -> 1..Len(pool)] : k \in 0..n}

\* -------------------------------------------------------- state machine
Init ==
  /\ pc = "start"
  /\ \E c \in Choices(FoundPool, MaxTables) : found = Pick(FoundPool, c, 1)
  /\ \E c \in Choices(BlockPool, MaxBlocks) : blocks = Pick(BlockPool, c, 1)
  /\ \E o \in Orders(FragmentPool, MaxRuns) : content = Stream(FragmentPool, o)
  /\ tables = <<>>
  /\ items = <<>>
  /\ matches = <<>>
  /\ text_block_matches = <<>>
  /\ used_indices = {}
  /\ new_content_parts = <<>>
  /\ mcid_counter = 0
  /\ item_pos = 0
  /\ sect_K = <<>>

\* analyze_layout, line 79: tables = detect_tables(page)
DetectTables ==
  /\ pc = "start"
  /\ tables' = detect_tables(found)
  /\ pc' = "layout"
  /\ UNCHANGED <<found, blocks, content, items, matches, text_block_matches,
                 used_indices, new_content_parts, mcid_counter, item_pos, sect_K>>

\* analyze_layout, lines 80-160: the page's items, sorted.
AnalyzeLayout ==
  /\ pc = "layout"
  /\ items' = analyze_layout(tables, blocks, PageHeight)
  /\ pc' = "tagging"
  /\ UNCHANGED <<found, blocks, content, tables, matches, text_block_matches,
                 used_indices, new_content_parts, mcid_counter, item_pos, sect_K>>

\* apply_tagging, lines 333-334: a page without items is left as it is.
SkipPage ==
  /\ pc = "tagging"
  /\ items = <<>>
  /\ pc' = "done"
  /\ UNCHANGED <<found, blocks, content, tables, items, matches,
                 text_block_matches, used_indices, new_content_parts,
                 mcid_counter, item_pos, sect_K>>

\* insert_marked_content_by_bbox, lines 243-256: the BT...ET blocks; with
\* none the content is returned as it is.
FindRuns ==
  /\ pc = "tagging"
  /\ items # <<>>
  /\ matches' = FindBtEt(content, 1)
  /\ IF matches' = <<>>
     THEN /\ new_content_parts' = <<[kind |-> "copy", chars |-> content]>>
          /\ pc' = "build"
     ELSE /\ new_content_parts' = new_content_parts
          /\ pc' = "match"
  /\ UNCHANGED <<found, blocks, content, tables, items, text_block_matches,
                 used_indices, mcid_counter, item_pos, sect_K>>

\* insert_marked_content_by_bbox, one pass of the loop of lines 258-267.
MatchRun ==
  /\ pc = "match"
  /\ Len(text_block_matches) < Len(matches)
  /\ LET match == matches[Len(text_block_matches) + 1]
         entry == MatchEntry(content, match, items, used_indices)
     IN /\ text_block_matches' = Append(text_block_matches, entry)
        /\ used_indices' = IF entry.item_idx # None
                           THEN AddUsed(used_indices, entry.item_idx)
                           ELSE used_indices
  /\ UNCHANGED <<pc, found, blocks, content, tables, items, matches,
                 new_content_parts, mcid_counter, item_pos, sect_K>>

\* insert_marked_content_by_bbox, lines 271-300: the new content.
Rewrite ==
  /\ pc = "match"
  /\ Len(text_block_matches) = Len(matches)
  /\ new_content_parts' = BuildParts(content, items, text_block_matches, 1, 0)
  /\ pc' = "build"
  /\ UNCHANGED <<found, blocks, content, tables, items, matches,
                 text_block_matches, used_indices, mcid_counter, item_pos, sect_K>>

\* apply_tagging, one pass of the loop of lines 375-438 (the counter and the
\* section of lines 364-374 are the initial mcid_counter and sect_K).
BuildItem ==
  /\ pc = "build"
  /\ item_pos < Len(items)
  /\ sect_K' = Append(sect_K, ItemElem(ItemAt(items, item_pos), mcid_counter))
  /\ mcid_counter' = CounterAfter(ItemAt(items, item_pos), mcid_counter)
  /\ item_pos' = item_pos + 1
  /\ pc' = IF item_pos + 1 = Len(items) THEN "done" ELSE "build"
  /\ UNCHANGED <<found, blocks, content, tables, items, matches,
                 text_block_matches, used_indices, new_content_parts>>

Next ==
  \/ DetectTables
  \/ AnalyzeLayout
  \/ SkipPage
  \/ FindRuns
  \/ MatchRun
  \/ Rewrite
  \/ BuildItem

Spec == Init /\ [][Next]_vars

\* ------------------------------------------------------------ observers
\* The page's content stream as apply_tagging leaves it: the new stream of
\* line 359 once it is built, the original one before and on a skipped page.
PageContents ==
  IF pc \in {"build", "done"} /\ items # <<>>
  THEN Concat(new_content_parts) ELSE content

\* The text that opens the property list of a BDC operator.
McidMarker == <<"<", "<", "/", "M", "C", "I", "D", " ">>

RECURSIVE StrToInt(_)
\* The number a string of decimal digits writes.
StrToInt(ds) ==
  IF ds = <<>> THEN 0
  ELSE 10 * StrToInt(SubSeq(ds, 1, Len(ds) - 1))
       + (CHOOSE k \in 0..9 : Digits[k + 1] = ds[Len(ds)])

\* The number written after the marker that starts at position i.
McidAt(stream, i) ==
  LET from == i + Len(McidMarker)
      stops == {j \in from..Len(stream) : stream[j] \notin ToSet(Digits)}
      e == IF stops = {} THEN Len(stream) ELSE MinOf(stops) - 1
  IN StrToInt(Slice(stream, from, e))

RECURSIVE McidsFrom(_, _)
\* The MCIDs of the marked-content operators of a stream, in stream order.
McidsFrom(stream, from) ==
  LET at == {i \in from..(Len(stream) - Len(McidMarker) + 1) :
               SubSeq(stream, i, i + Len(McidMarker) - 1) = McidMarker}
  IN IF at = {} THEN <<>>
     ELSE <<McidAt(stream, MinOf(at))>> \o McidsFrom(stream, MinOf(at) + 1)

\* The MCIDs emitted in the page's stream, in stream order.
EmittedMcids == McidsFrom(PageContents, 1)

RECURSIVE RefsOf(_)
\* The MCIDs a list of structure elements references, in the order the
\* elements are walked: a Table or TR holds elements, the others an MCID.
RefsOf(elems) ==
  IF elems = <<>> THEN <<>>
  ELSE (IF elems[1].S \in {"Table", "TR"} THEN RefsOf(elems[1].K)
        ELSE <<elems[1].K>>) \o RefsOf(Tail(elems))

\* The MCIDs referenced by the page's structure elements.
ReferencedMcids == RefsOf(sect_K)

\* No value occurs twice in a sequence.
Distinct(seq) == \A i, j \in 1..Len(seq) : i # j => seq[i] # seq[j]

RECURSIVE MatchedFrom(_, _)
\* The item indexes of the matched runs, in run order.
MatchedFrom(tbm, k) ==
  IF k > Len(tbm) THEN <<>>
  ELSE (IF tbm[k].item_idx # None THEN <<tbm[k].item_idx>> ELSE <<>>)
       \o MatchedFrom(tbm, k + 1)

MatchedIdx == MatchedFrom(text_block_matches, 1)

\* The indexes consumed by the runs before run j.
UsedBefore(j) ==
  {text_block_matches[i].item_idx : i \in 1..(j - 1)} \ {None}

\* The lowercase stripped text of the item at Python index idx.
ItemLower(idx) == Lower(Strip(ItemText(ItemAt(items, idx))))

\* The indexes of the page's items.
ItemIndexes == 0..(Len(items) - 1)

\* The items run j could be matched with: not consumed by an earlier run,
\* not a table, with a text.
Candidates(j) ==
  {idx \in ItemIndexes :
     /\ idx \notin UsedBefore(j)
     /\ ItemAt(items, idx).type # "Table"
     /\ ItemLower(idx) # <<>>}

\* insert_marked_content_by_bbox has just returned the page's new content
\* (the content does not change afterwards).
Rewritten == pc = "build" /\ item_pos = 0

\* The matching loop is running or has just ended (text_block_matches does
\* not change afterwards).
Matching == pc = "match"

\* ---------------------------------------------------------------- C1
\* C1: once the Rewriter and the Builder have run on a page, the MCIDs the
\* page's structure elements reference are exactly the MCIDs emitted in the
\* BDC operators of the rewritten stream, none of them twice.
C1_McidSetsEqual ==
  pc = "done" =>
    /\ ToSet(ReferencedMcids) = ToSet(EmittedMcids)
    /\ Distinct(ReferencedMcids)
    /\ Distinct(EmittedMcids)

\* ---------------------------------------------------------------- C2
\* C2: for every matched run the MCID written in its BDC operator is the
\* matched item's index, and the structure element built for that item
\* references the same MCID, also after Table items.
C2_SameMcidInStreamAndTree ==
  pc = "done" =>
    /\ EmittedMcids = MatchedIdx
    /\ \A k \in 1..Len(MatchedIdx) :
         sect_K[MatchedIdx[k] + 1].K = MatchedIdx[k]

\* ---------------------------------------------------------------- C3
\* C3 as stated: on every tagged page the emitted MCIDs are a strict subset
\* of the referenced MCIDs.
C3_StrictSubset ==
  (pc = "done" /\ items # <<>>) =>
    /\ ToSet(EmittedMcids) \subseteq ToSet(ReferencedMcids)
    /\ ToSet(EmittedMcids) # ToSet(ReferencedMcids)

\* C3 as amended: on every page the emitted MCIDs are a subset of the
\* referenced MCIDs (every emitted MCID is referenced; the two sets may be
\* equal).
C3_Subset ==
  pc = "done" => ToSet(EmittedMcids) \subseteq ToSet(ReferencedMcids)

\* A tagged page with a table, a wrapped run and a referenced MCID that is
\* not emitted.
C3_Witness ==
  /\ pc = "done"
  /\ EmittedMcids # <<>>
  /\ \E k \in 1..Len(items) : items[k].type = "Table"
  /\ ToSet(ReferencedMcids) \ ToSet(EmittedMcids) # {}

\* ---------------------------------------------------------------- C4
\* C4 as stated: the MCIDs of the wrapped runs, in stream order, start at 0
\* and are strictly increasing.
C4_ZeroBasedIncreasing ==
  Rewritten =>
    LET emitted == EmittedMcids
    IN /\ emitted # <<>> => emitted[1] = 0
       /\ \A i, j \in 1..Len(emitted) : i < j => emitted[i] < emitted[j]

\* C4 as amended: the MCIDs of the wrapped runs, in stream order, are the
\* indexes of the items matched to the runs, pairwise distinct and less
\* than the number of items.
C4_DistinctItemIndexes ==
  Rewritten =>
    LET emitted == EmittedMcids
    IN /\ emitted = MatchedIdx
       /\ Distinct(emitted)
       /\ ToSet(emitted) \subseteq ItemIndexes

\* A rewritten stream whose first wrapped run carries MCID 1 and whose
\* second carries MCID 0.
C4_Witness == Rewritten /\ EmittedMcids = <<1, 0>>

\* ---------------------------------------------------------------- C5
\* C5: the Matcher's assignment is a partial injective mapping: a run has
\* one item index or none, no index is given to two runs, a run is only
\* given an index no earlier run consumed, and never that of a Table.
C5_PartialInjective ==
  Matching =>
    /\ \A j \in 1..Len(text_block_matches) :
         LET idx == text_block_matches[j].item_idx
         IN idx # None =>
              /\ idx \in ItemIndexes
              /\ idx \notin UsedBefore(j)
              /\ ItemAt(items, idx).type # "Table"
    /\ Distinct(MatchedIdx)
    /\ used_indices = ToSet(MatchedIdx)

\* Two runs with the same text matched to two items, on a page with a table.
C5_Witness ==
  /\ \E k \in 1..Len(items) : items[k].type = "Table"
  /\ \E i, j \in 1..Len(text_block_matches) :
       /\ i < j
       /\ text_block_matches[i].bt_et_text = text_block_matches[j].bt_et_text
       /\ text_block_matches[i].item_idx # None
       /\ text_block_matches[j].item_idx # None

\* ---------------------------------------------------------------- C6
\* C6: when a candidate item's text equals the run text case-insensitively,
\* find_best_match returns an item whose text equals the run text
\* case-insensitively.
C6_ExactWins ==
  Matching => \A j \in 1..Len(text_block_matches) :
    LET e == text_block_matches[j]
    IN (\E idx \in Candidates(j) : ItemLower(idx) = Lower(e.bt_et_text)) =>
         /\ e.item_idx # None
         /\ ItemLower(e.item_idx) = Lower(e.bt_et_text)

\* A run matched to an exactly equal item although a candidate earlier in
\* the sequence, not equal to the run text, is a prefix of it.
C6_Witness ==
  \E j \in 1..Len(text_block_matches) :
    LET e == text_block_matches[j]
    IN /\ e.item_idx # None
       /\ ItemLower(e.item_idx) = Lower(e.bt_et_text)
       /\ \E idx \in Candidates(j) :
            /\ idx < e.item_idx
            /\ ItemLower(idx) # Lower(e.bt_et_text)
            /\ StartsWith(Lower(e.bt_et_text), ItemLower(idx))

\* ---------------------------------------------------------------- C7
\* The word set of a text: its distinct whitespace-separated tokens.
WordSet(text) == ToSet(Split(text))

\* The word-set overlap ratio of two texts is at most 0.3.
LowOverlap(a, b) ==
  10 * Cardinality(WordSet(a) \cap WordSet(b))
    <= 3 * Max(Cardinality(WordSet(a)), Cardinality(WordSet(b)))

\* Run text t and item text i (both lowercase) qualify by the substring rule
\* alone, with a word-set overlap ratio of 0.3 or less.
WeakPair(t, i) ==
  /\ t # i
  /\ ~StartsWith(t, Slice(i, 1, Min(20, Len(i))))
  /\ (Contains(t, i) \/ Contains(i, t))
  /\ LowOverlap(t, i)

\* C7: find_best_match never returns an item that qualifies by the
\* substring rule alone with an overlap ratio of 0.3 or less, and returns
\* no match for an empty run text.
C7_NoWeakMatch ==
  Matching => \A j \in 1..Len(text_block_matches) :
    LET e == text_block_matches[j]
    IN /\ e.bt_et_text = <<>> => e.item_idx = None
       /\ e.item_idx # None =>
            ~WeakPair(Lower(e.bt_et_text), ItemLower(e.item_idx))

\* A run left unmatched whose only candidates qualify weakly, beside a run
\* with an empty text.
C7_Witness ==
  /\ \E j \in 1..Len(text_block_matches) :
       /\ text_block_matches[j].bt_et_text # <<>>
       /\ text_block_matches[j].item_idx = None
       /\ \E idx \in Candidates(j) :
            WeakPair(Lower(text_block_matches[j].bt_et_text), ItemLower(idx))
  /\ \E j \in 1..Len(text_block_matches) :
       text_block_matches[j].bt_et_text = <<>>

\* ---------------------------------------------------------------- C8
\* A part that holds bytes of the original stream.
IsOriginal(part) == part.kind \in {"copy", "run"}

\* The positions of the "run" parts of new_content_parts, in order.
RunParts == SelectSeq([p \in 1..Len(new_content_parts) |-> p],
                      LAMBDA p : new_content_parts[p].kind = "run")

\* The number of parts of a kind.
CountKind(kind) ==
  Cardinality({p \in 1..Len(new_content_parts) : new_content_parts[p].kind = kind})

\* C8: the Rewriter only inserts. The parts taken from the original stream,
\* joined in order, are the original stream; every run is copied unchanged,
\* a matched run between one BDC and one EMC, an unmatched run between
\* copied bytes; there are as many BDC and EMC as matched runs; without a
\* matched run the new stream is the original one.
C8_OnlyInserts ==
  Rewritten =>
    /\ Concat(SelectSeq(new_content_parts, IsOriginal)) = content
    /\ Len(RunParts) = Len(text_block_matches)
    /\ \A k \in 1..Len(RunParts) :
         LET p == RunParts[k]
             e == text_block_matches[k]
         IN /\ new_content_parts[p].chars = SubSeq(content, e.start, e.end)
            /\ IF e.item_idx # None
               THEN /\ new_content_parts[p - 1].kind = "bdc"
                    /\ new_content_parts[p + 1].kind = "emc"
               ELSE /\ new_content_parts[p - 1].kind = "copy"
                    /\ new_content_parts[p + 1].kind = "copy"
    /\ CountKind("bdc") = Len(MatchedIdx)
    /\ CountKind("emc") = Len(MatchedIdx)
    /\ MatchedIdx = <<>> => PageContents = content

\* A rewritten stream with a wrapped run, an unwrapped run and bytes that
\* belong to no run.
C8_Witness ==
  /\ Rewritten
  /\ MatchedIdx # <<>>
  /\ Len(MatchedIdx) < Len(text_block_matches)
  /\ \E p \in 1..Len(new_content_parts) :
       new_content_parts[p].kind = "copy" /\ Len(new_content_parts[p].chars) > 1

\* ---------------------------------------------------------------- C9
\* Every cell of a row has the given is_header.
AllHeader(row, is_header) ==
  \A c \in 1..Len(row) : row[c].is_header = is_header

\* C9: every table detect_tables emits has a first row of header cells
\* followed by at least one row, all of body cells.
C9_HeaderPlusBody ==
  \A t \in 1..Len(tables) :
    /\ Len(tables[t].cells) >= 2
    /\ AllHeader(tables[t].cells[1], TRUE)
    /\ \A r \in 2..Len(tables[t].cells) : AllHeader(tables[t].cells[r], FALSE)

\* ---------------------------------------------------------------- C10
\* Two bounding boxes share an area.
Overlaps(a, b) == a[1] < b[3] /\ b[1] < a[3] /\ a[2] < b[4] /\ b[2] < a[4]

\* analyze_layout has just returned the page's items (they do not change
\* afterwards).
LaidOut == pc = "tagging"

\* The indexes of the text items.
TextItems == {k \in 1..Len(items) : items[k].type # "Table"}

\* C10 as stated: no retained text block's bounding box overlaps the
\* bounding box of a detected table.
C10_NoOverlap ==
  LaidOut =>
    \A k \in TextItems : \A t \in 1..Len(tables) :
      ~Overlaps(items[k].bbox, tables[t].bbox)

\* C10 as amended: no retained text block lies inside the bounding box of a
\* detected table widened by 5 units on every side.
C10_NotInsideTable ==
  LaidOut =>
    \A k \in TextItems : \A t \in 1..Len(tables) :
      ~(/\ items[k].bbox[1] >= tables[t].bbox[1] - 5
        /\ items[k].bbox[2] >= tables[t].bbox[2] - 5
        /\ items[k].bbox[3] <= tables[t].bbox[3] + 5
        /\ items[k].bbox[4] <= tables[t].bbox[4] + 5)

\* A page with a table, a retained text block that overlaps it and a text
\* block of the page that was dropped.
C10_Witness ==
  /\ LaidOut
  /\ \E k \in TextItems : \E t \in 1..Len(tables) :
       Overlaps(items[k].bbox, tables[t].bbox)
  /\ \E b \in 1..Len(blocks) :
       /\ blocks[b].has_lines
       /\ Strip(SpanText(Flatten(blocks[b].lines))) # <<>>
       /\ \A k \in TextItems : items[k].bbox # blocks[b].bbox

\* ---------------------------------------------------------------- C11
\* The structure-element loop of the page is running or has ended.
Building == pc \in {"build", "done"}

\* C11: after every pass of the Builder's loop the MCIDs referenced so far,
\* in the order items and cells were walked, are 0, 1, ..., n - 1 (distinct
\* and increasing), the counter is n, and one element per walked item hangs
\* under the section, whatever the Rewriter wrapped.
C11_CounterNumbersRefs ==
  Building =>
    LET refs == ReferencedMcids
    IN /\ refs = [k \in 1..Len(refs) |-> k - 1]
       /\ mcid_counter = Len(refs)
       /\ Len(sect_K) = item_pos

\* A finished page with a table, a text item walked after it that no run
\* was matched to, and a wrapped run.
C11_Witness ==
  /\ pc = "done"
  /\ MatchedIdx # <<>>
  /\ \E k \in 1..Len(items) :
       /\ items[k].type = "Table"
       /\ \E n \in (k + 1)..Len(items) :
            items[n].type # "Table" /\ (n - 1) \notin ToSet(MatchedIdx)

\* ---------------------------------------------------------------- C12
\* The element a TR holds for a cell: TH for a header cell, TD otherwise,
\* titled with the cell's text.
IsCellElem(elem, cell) ==
  /\ elem.S = (IF cell.is_header THEN "TH" ELSE "TD")
  /\ elem.P = "TR"
  /\ elem.T = Slice(cell.text, 1, Min(100, Len(cell.text)))

\* The element a Table holds for a row: a TR with one element per cell of
\* the row, in cell order.
IsRowElem(elem, row) ==
  /\ elem.S = "TR"
  /\ elem.P = "Table"
  /\ Len(elem.K) = Len(row)
  /\ \A c \in 1..Len(row) : IsCellElem(elem.K[c], row[c])

\* C12: the section holds one element per walked item, a Table element
\* exactly for a Table item; a Table element holds one TR per row of the
\* item's cell matrix, in row order, and a TR one TH or TD per cell; no TR,
\* TH or TD hangs directly under the section and no TH or TD under a Table.
C12_TableTree ==
  Building =>
    \A k \in 1..Len(sect_K) :
      /\ sect_K[k].P = "Sect"
      /\ sect_K[k].S \notin {"TR", "TH", "TD"}
      /\ (sect_K[k].S = "Table") = (items[k].type = "Table")
      /\ items[k].type = "Table" =>
           /\ Len(sect_K[k].K) = Len(items[k].table_data)
           /\ \A r \in 1..Len(items[k].table_data) :
                IsRowElem(sect_K[k].K[r], items[k].table_data[r])

\* A section with a Table element whose first TR holds two TH and whose
\* second TR holds two TD, beside the element of a text item.
C12_Witness ==
  /\ Building
  /\ \E k \in 1..Len(sect_K) :
       /\ sect_K[k].S = "Table"
       /\ Len(sect_K[k].K) = 2
       /\ Len(sect_K[k].K[1].K) = 2 /\ sect_K[k].K[1].K[1].S = "TH"
       /\ Len(sect_K[k].K[2].K) = 2 /\ sect_K[k].K[2].K[1].S = "TD"
  /\ \E k \in 1..Len(sect_K) : sect_K[k].S \in {"H1", "H2", "P"}

\* ---------------------------------------------------------------- C13
\* The substring score as the claim states it: distinct common tokens over
\* the number of distinct tokens of the text that has more of them.
WordSetScore(t, i) ==
  <<Cardinality(WordSet(t) \cap WordSet(i)),
    Max(Cardinality(WordSet(t)), Cardinality(WordSet(i)))>>

\* Two fractions are the same number.
SameFraction(a, b) == a[1] * b[2] = b[1] * a[2]

\* The score the claim gives run text t and item text i (both lowercase,
\* not equal): the larger of the substring score, when one contains the
\* other, and 0.8, when t starts with the first 20 characters of i.
ClaimedScore(t, i) ==
  LET sub == IF Contains(t, i) \/ Contains(i, t) THEN WordSetScore(t, i)
             ELSE <<0, 1>>
  IN IF StartsWith(t, Slice(i, 1, Min(20, Len(i)))) /\ Gt(<<4, 5>>, sub)
     THEN <<4, 5>> ELSE sub

\* The candidates of run j whose text contains the run text or is contained
\* in it, without being equal to it: those line 219 scores.
Scored(j) ==
  {idx \in Candidates(j) :
     LET t == Lower(text_block_matches[j].bt_et_text)
     IN /\ ItemLower(idx) # t
        /\ (Contains(t, ItemLower(idx)) \/ Contains(ItemLower(idx), t))}

\* C13: the substring score find_best_match computes is the number of
\* distinct common tokens over the number of distinct tokens of the text
\* with the larger token set, also for texts with repeated words; and,
\* when no candidate equals the run text, the item returned is the one whose
\* score is strictly the highest, returned only when that score exceeds 0.3.
C13_WordSetScoreSelects ==
  Matching =>
    \A j \in 1..Len(text_block_matches) :
      LET e == text_block_matches[j]
          t == Lower(e.bt_et_text)
      IN e.bt_et_text # <<>> =>
           /\ \A idx \in Scored(j) :
                SameFraction(Similarity(t, ItemLower(idx)),
                             WordSetScore(t, ItemLower(idx)))
           /\ (\A idx \in Candidates(j) : ItemLower(idx) # t) =>
                IF e.item_idx = None
                THEN \A idx \in Candidates(j) :
                       ~Gt(ClaimedScore(t, ItemLower(idx)), <<3, 10>>)
                ELSE /\ Gt(ClaimedScore(t, ItemLower(e.item_idx)), <<3, 10>>)
                     /\ \A idx \in Candidates(j) \ {e.item_idx} :
                          Gt(ClaimedScore(t, ItemLower(e.item_idx)),
                             ClaimedScore(t, ItemLower(idx)))

====
